---- MODULE Spec2Model ----
(***************************************************************************)
(* Model of the card-deck service of src/main.go: the HTTP handlers        *)
(* (createDeck, handleDeckRequests, addCards, showDrawnCards,              *)
(* showUpcomingCards), the worker goroutine (handleRequests, drawCards,    *)
(* shuffleDeck), the global mutex mu, the unbuffered requestChannel and    *)
(* reply channels, and the decks table of the SQLite store.                *)
(*                                                                         *)
(* A Go string is a sequence of one-character strings, so that Atoi and    *)
(* Split are computed character by character.                              *)
(***************************************************************************)
EXTENDS Integers, Sequences, FiniteSets, TLC

VARIABLES
    db,     \* the decks table: id -> [cards, piged, upcoming], JSON columns
    mu,     \* sync.Mutex mu: 0 when free, otherwise the goroutine holding it
    pc,     \* position of every goroutine (handlers and the worker)
    req,    \* per handler: the HTTP request it is serving
    out,    \* the exchange just completed: a request and the response written
    loc,    \* per goroutine: local variables of the running function
    wreq,   \* the worker's req (received from requestChannel)
    hist,   \* history: per deck, the cards returned by draws (drawn), each
            \* draw's count asked (n) and returned (k), and the cards added
    nreq    \* history: number of HTTP requests accepted so far

vars == <<db, mu, pc, req, out, loc, wreq, hist, nreq>>

(***************************************************************************)
(* Bounds of the model.                                                    *)
(***************************************************************************)
NumHandlers == 2    \* concurrent HTTP handler goroutines
MaxReq == 3         \* HTTP requests accepted in one behaviour
MaxDecks == 1       \* rows of the decks table
MaxSeed == 1        \* random streams a shuffle may see: 0..MaxSeed

Handlers == 1..NumHandlers
Worker == NumHandlers + 1
Procs == Handlers \cup {Worker}

(***************************************************************************)
(* Strings.                                                                *)
(***************************************************************************)
DigitChars == <<"0", "1", "2", "3", "4", "5", "6", "7", "8", "9">>

IsDigit(c) == \E i \in 1..10 : DigitChars[i] = c

DigitVal(c) == (CHOOSE i \in 1..10 : DigitChars[i] = c) - 1

RECURSIVE DigitsVal(_)
DigitsVal(s) ==
    IF s = <<>> THEN 0
    ELSE 10 * DigitsVal(SubSeq(s, 1, Len(s) - 1)) + DigitVal(s[Len(s)])

\* Atoi that reads past a sign and forgets it
Atoi_NoSign(s) ==
    LET signed == Len(s) > 0 /\ s[1] \in {"+", "-"}
        body == IF signed THEN Tail(s) ELSE s
        ok == Len(body) > 0 /\ \A i \in 1..Len(body) : IsDigit(body[i])
    IN  [err |-> ~ok, n |-> IF ~ok THEN 0 ELSE DigitsVal(body)]

\* strconv.Atoi on the short inputs of the model (no overflow of int):
\* an optional sign, then one or more decimal digits.
Atoi(s) ==
    LET signed == Len(s) > 0 /\ s[1] \in {"+", "-"}
        body == IF signed THEN Tail(s) ELSE s
        ok == Len(body) > 0 /\ \A i \in 1..Len(body) : IsDigit(body[i])
        v == DigitsVal(body)
    IN  [err |-> ~ok,
         n |-> IF ~ok THEN 0 ELSE IF s[1] = "-" THEN 0 - v ELSE v]

\* strings.Split(s, sep) for a one-character separator: always at least
\* one part, Count(s, sep) + 1 parts in all.
RECURSIVE SplitFrom(_, _, _, _)
SplitFrom(s, sep, i, cur) ==
    IF i > Len(s) THEN <<cur>>
    ELSE IF s[i] = sep THEN <<cur>> \o SplitFrom(s, sep, i + 1, <<>>)
    ELSE SplitFrom(s, sep, i + 1, Append(cur, s[i]))

Split(s, sep) == SplitFrom(s, sep, 1, <<>>)

(***************************************************************************)
(* Go slices and their JSON text.  A slice is nil or not, and json.Marshal *)
(* writes a nil slice as null and any other slice as an array.             *)
(***************************************************************************)
NilSlice == [nil |-> TRUE, elems |-> <<>>]

MakeSlice(elems) == [nil |-> FALSE, elems |-> elems]

\* append putting the new elements in front
append_Front(s, xs) == IF xs = <<>> THEN s ELSE MakeSlice(xs \o s.elems)

\* append(s, xs...): a nil slice stays nil when nothing is appended
append(s, xs) == IF xs = <<>> THEN s ELSE MakeSlice(s.elems \o xs)

len(s) == Len(s.elems)

\* A byte that is no valid UTF-8, and the rune json.Marshal writes for it.
BadByte == "\\xff"
ReplacementRune == "\\ufffd"

\* encoding/json writes a string coerced to valid UTF-8
jsonString(s) ==
    [i \in 1..Len(s) |-> IF s[i] = BadByte THEN ReplacementRune ELSE s[i]]

\* the JSON object of a Card (fields code, rank, suit, image)
jsonCard(c) ==
    [Code |-> jsonString(c.Code), Rank |-> jsonString(c.Rank),
     Suit |-> jsonString(c.Suit), Image |-> jsonString(c.Image)]

JNull == [null |-> TRUE, arr |-> <<>>]

\* json.Marshal(cards)
Marshal(s) ==
    IF s.nil THEN JNull
    ELSE [null |-> FALSE, arr |-> [i \in 1..Len(s.elems) |-> jsonCard(s.elems[i])]]

\* json.Unmarshal(text, &v) into a nil slice variable
Unmarshal(j) == IF j.null THEN NilSlice ELSE MakeSlice(j.arr)

\* json.NewEncoder(w).Encode(cards): what the client reads back
Encode(s) == Marshal(s).arr

(***************************************************************************)
(* Cards.                                                                  *)
(***************************************************************************)
ranks == << <<"2">>, <<"3">>, <<"4">>, <<"5">>, <<"6">>, <<"7">>, <<"8">>,
            <<"9">>, <<"1", "0">>, <<"j">>, <<"q">>, <<"k">>, <<"a">> >>

suits == << <<"h">>, <<"d">>, <<"c">>, <<"s">> >>

JokerStr == <<"j", "o", "k", "e", "r">>

\* fmt.Sprintf("/static/%s.svg", code)
Image(code) ==
    <<"/", "s", "t", "a", "t", "i", "c", "/">> \o code \o <<".", "s", "v", "g">>

Card(code, rank, suit, image) ==
    [Code |-> code, Rank |-> rank, Suit |-> suit, Image |-> image]

Joker == Card(JokerStr, JokerStr, <<>>, Image(JokerStr))

\* for _, rank := range ranks: the 13 cards of one suit, appended in turn
rankLoop(suit) ==
    [r \in 1..Len(ranks) |->
        LET rank == ranks[r]
            code == rank \o suit
        IN  Card(code, rank, suit, Image(code))]

\* for _, suit := range suits: the cards appended from suit number s on
RECURSIVE suitLoop(_)
suitLoop(s) ==
    IF s > Len(suits) THEN <<>>
    ELSE rankLoop(suits[s]) \o suitLoop(s + 1)

\* for i := 0; i < nbrPaquet; i++: the cards appended from pack number i on
RECURSIVE packLoop(_, _, _)
packLoop(i, nbrPaquet, jokers) ==
    IF ~(i < nbrPaquet) THEN <<>>
    ELSE suitLoop(1) \o (IF jokers THEN <<Joker, Joker>> ELSE <<>>)
             \o packLoop(i + 1, nbrPaquet, jokers)

\* generateCards with the pack loop started at 1
generateCards_FromOne(nbrPaquet, jokers) ==
    append(NilSlice, packLoop(1, nbrPaquet, jokers))

\* var cards []Card, the appends of the loops, return cards
generateCards(nbrPaquet, jokers) == append(NilSlice, packLoop(0, nbrPaquet, jokers))

RECURSIVE parseLoop(_, _, _)
parseLoop(cards, parts, i) ==
    IF i > Len(parts) THEN cards
    ELSE parseLoop(append(cards, <<Card(parts[i], <<>>, <<>>, <<>>)>>), parts, i + 1)

\* parseCards passing over the empty codes
NonEmptyCode(code) == code # <<>>

parseCards_SkipEmpty(cardsStr) ==
    parseLoop(NilSlice, SelectSeq(Split(cardsStr, ","), NonEmptyCode), 1)

\* var cards []Card; for _, card := range strings.Split(cardsStr, ",")
parseCards(cardsStr) == parseLoop(NilSlice, Split(cardsStr, ","), 1)

(***************************************************************************)
(* rand.Shuffle: Fisher-Yates from the last index down, each partner j     *)
(* drawn from the generator.  The generator's stream is an input of the    *)
(* model: stream `seed` answers Int31n(n) with (seed + n - 1) % n, so      *)
(* stream 0 leaves the order alone and the others move cards.              *)
(***************************************************************************)
Int31n(seed, n) == (seed + n - 1) % n

\* swap that copies position j over position i and loses a[i]
swap_Overwrite(a, i, j) == [a EXCEPT ![i + 1] = a[j + 1]]

\* swap of the 0-based positions i and j
swap(a, i, j) ==
    IF i = j THEN a
    ELSE LET lo == IF i < j THEN i ELSE j
             hi == IF i < j THEN j ELSE i
         IN  SubSeq(a, 1, lo) \o <<a[hi + 1]>> \o SubSeq(a, lo + 2, hi)
                 \o <<a[lo + 1]>> \o SubSeq(a, hi + 2, Len(a))

\* for i := hi; i >= lo; i-- { j := Int31n(i + 1); swap(i, j) }, run as the
\* steps hi..mid+1 and then the steps mid..lo (the test on Len(b) has TLC
\* evaluate the first half before the second starts)
RECURSIVE shuffleLoop(_, _, _, _)
shuffleLoop(a, hi, lo, seed) ==
    IF hi < lo THEN a
    ELSE IF hi = lo THEN swap(a, hi, Int31n(seed, hi + 1))
    ELSE LET mid == (hi + lo) \div 2
             b == shuffleLoop(a, hi, mid + 1, seed)
         IN  IF Len(b) = 0 THEN b ELSE shuffleLoop(b, mid, lo, seed)

\* Shuffle losing the last card
Shuffle_DropLast(s, seed) ==
    [nil |-> s.nil,
     elems |-> SubSeq(shuffleLoop(s.elems, len(s) - 1, 1, seed), 1, len(s) - 1)]

\* rand.Shuffle(len(upcomingCards), swap)
Shuffle(s, seed) ==
    [nil |-> s.nil, elems |-> shuffleLoop(s.elems, len(s) - 1, 1, seed)]

(***************************************************************************)
(* Requests and responses.                                                 *)
(***************************************************************************)
sDraw == <<"d", "r", "a", "w">>
sShuffle == <<"s", "h", "u", "f", "f", "l", "e">>
sShow == <<"s", "h", "o", "w">>
sAdd == <<"a", "d", "d">>
sTrue == <<"t", "r", "u", "e">>

\* uuid.New().String(): the n-th identifier handed out, never one in use
NewUUID(n) == <<"d", DigitChars[n + 1]>>

DeckIds == {NewUUID(n) : n \in 1..MaxDecks}

RECURSIVE JoinPath(_)
JoinPath(parts) ==
    IF Len(parts) = 1 THEN parts[1]
    ELSE parts[1] \o <<"/">> \o JoinPath(Tail(parts))

HttpRequest(entry, method, path, query) ==
    [Entry |-> entry, Method |-> method, Path |-> path, Query |-> query]

NoReq == HttpRequest("", "", <<>>, <<>>)

\* http.Error(w, msg, status)
HttpError(msg, status) ==
    [status |-> status, msg |-> msg, ID |-> <<>>, Cards |-> <<>>, Remaining |-> 0]

NoResp == HttpError("", 0)

\* DeckResp reporting the number of cards returned as remaining
DeckResp_CardCount(id, cards, remaining) ==
    [status |-> 200, msg |-> "", ID |-> id, Cards |-> Encode(cards),
     Remaining |-> len(cards)]

\* json.NewEncoder(w).Encode(Deck{ID, Cards, Remaining})
DeckResp(id, cards, remaining) ==
    [status |-> 200, msg |-> "", ID |-> id, Cards |-> Encode(cards),
     Remaining |-> remaining]

\* json.NewEncoder(w).Encode(list)
ListResp(list) ==
    [status |-> 200, msg |-> "", ID |-> <<>>, Cards |-> Encode(list), Remaining |-> 0]

\* Response{Error: fmt.Errorf(msg)} and Response{Deck: deck}
ErrResponse(msg) ==
    [Error |-> msg, ID |-> <<>>, Cards |-> NilSlice, Remaining |-> 0]

OkResponse(id, cards, remaining) ==
    [Error |-> "", ID |-> id, Cards |-> cards, Remaining |-> remaining]

NoLoc == [nbrCarte |-> 0, existingCards |-> NilSlice, upcomingCards |-> NilSlice,
          out |-> ErrResponse("")]

NoWreq == [Type |-> "", DeckID |-> <<>>, Params |-> <<>>, ReplyCh |-> 0]

\* handleResponse that overlooks resp.Error
handleResponse_IgnoreError(r) == DeckResp(r.ID, r.Cards, r.Remaining)

handleResponse(r) ==
    IF r.Error # "" THEN HttpError(r.Error, 500)
    ELSE DeckResp(r.ID, r.Cards, r.Remaining)

\* a request and the response its handler wrote
Exchange(r, response) == [req |-> r, resp |-> response]

NoOut == Exchange(NoReq, NoResp)

\* net/http starts a goroutine per request: the idle handler with the lowest
\* number stands for it
Fresh(p) == pc[p] = "idle" /\ \A q \in Handlers : q < p => pc[q] # "idle"

\* the inputs of the model
NewPaths == { <<"1">>, <<"0">>, <<"1", "1">> }
DrawCounts == { <<"5">>, <<"9", "9">>, <<"0">> }
ShowCounts == { <<"0">>, <<"2">> }
CardsParams == { <<>>, <<"k", ",", BadByte>> }

\* the decimal text of a pack count, and the /deck/new/ paths that sweep
\* the pack counts 0..11 with and without jokers
NumStr(n) ==
    IF n < 10 THEN <<DigitChars[n + 1]>>
    ELSE <<DigitChars[(n \div 10) + 1], DigitChars[(n % 10) + 1]>>

sFalse == <<"f", "a", "l", "s", "e">>

GenPath(n, jokers) ==
    IF jokers = <<>> THEN NumStr(n) ELSE JoinPath(<<NumStr(n), jokers>>)

GenPaths == {GenPath(n, j) : n \in 0..11, j \in {<<>>, sTrue, sFalse}}

DeckRequests ==
    {HttpRequest("deck", "GET", JoinPath(<<id, sDraw, c>>), <<>>) :
        id \in DeckIds, c \in DrawCounts}
    \cup {HttpRequest("deck", "GET", JoinPath(<<id, sShuffle>>), <<>>) : id \in DeckIds}
    \cup {HttpRequest("deck", "POST", JoinPath(<<id, sAdd>>), q) :
            id \in DeckIds, q \in CardsParams}
    \cup {HttpRequest("deck", "GET", JoinPath(<<id, sShow, t, c>>), <<>>) :
            id \in DeckIds, t \in {<<"0">>, <<"1">>}, c \in ShowCounts}

Init ==
    /\ db = [id \in {} |-> 0]
    /\ mu = 0
    /\ pc = [p \in Procs |-> IF p = Worker THEN "recv" ELSE "idle"]
    /\ req = [p \in Handlers |-> NoReq]
    /\ out = NoOut
    /\ loc = [p \in Procs |-> NoLoc]
    /\ wreq = NoWreq
    /\ hist = [id \in {} |-> 0]
    /\ nreq = 0

(***************************************************************************)
(* createDeck: the handler of /deck/new/.                                  *)
(***************************************************************************)
\* A request arrives and its goroutine passes mu.Lock().  A goroutine that
\* waits at mu.Lock() has done nothing yet, so the arrival and the lock are
\* one step, taken when mu is free.
createDeck_LockUpTo(p, paths, maxDecks) ==
    /\ Fresh(p)
    /\ nreq < MaxReq
    /\ Cardinality(DOMAIN db) < maxDecks
    /\ mu = 0
    /\ mu' = p
    /\ \E path \in paths :
          req' = [req EXCEPT ![p] = HttpRequest("new", "GET", path, <<>>)]
    /\ out' = NoOut
    /\ pc' = [pc EXCEPT ![p] = "cExec"]
    /\ nreq' = nreq + 1
    /\ UNCHANGED <<db, loc, wreq, hist>>

createDeck_Lock(p, paths) == createDeck_LockUpTo(p, paths, MaxDecks)

\* nbrPaquet of the request path: strconv.Atoi of the first part, else 1
nbrPaquetOf(path) ==
    LET a == Atoi(Split(path, "/")[1])
    IN  IF ~a.err THEN a.n ELSE 1

\* jokers of the request path: the second part is "true"
jokersOf(path) ==
    LET parts == Split(path, "/")
    IN  Len(parts) > 1 /\ parts[2] = sTrue

\* NewRow with an empty upcoming column
NewRow_NoUpcoming(cards) ==
    [cards |-> Marshal(cards), piged |-> Marshal(MakeSlice(<<>>)),
     upcoming |-> Marshal(MakeSlice(<<>>))]

\* the row INSERTed for a new deck
NewRow(cards) ==
    [cards |-> Marshal(cards), piged |-> Marshal(MakeSlice(<<>>)),
     upcoming |-> Marshal(cards)]

\* the body of createDeck, then the deferred mu.Unlock()
createDeck_Exec(p) ==
    /\ pc[p] = "cExec"
    /\ LET nbrPaquet == nbrPaquetOf(req[p].Path)
           jokers == jokersOf(req[p].Path)
           deckID == NewUUID(Cardinality(DOMAIN db) + 1)
           cards == generateCards(nbrPaquet, jokers)
       IN  IF nbrPaquet > 10
           THEN /\ out' = Exchange(req[p], HttpError("Too many Deckes", 500))
                /\ UNCHANGED <<db, hist>>
           ELSE /\ db' = db @@ (deckID :> NewRow(cards))
                /\ hist' = hist @@ (deckID :> [drawn |-> <<>>, draws |-> <<>>, added |-> <<>>])
                /\ out' = Exchange(req[p], DeckResp(deckID, cards, len(cards)))
    /\ mu' = 0
    /\ pc' = [pc EXCEPT ![p] = "idle"]
    /\ req' = [req EXCEPT ![p] = NoReq]
    /\ UNCHANGED <<loc, wreq, nreq>>

(***************************************************************************)
(* handleDeckRequests: the handler of /deck/, up to the first point where  *)
(* the goroutine can block (mu.Lock() or the send on requestChannel).      *)
(***************************************************************************)
\* where a request goes: the next position and, if answered at once, the answer
Route(r) ==
    LET parts == Split(r.Path, "/")
        notAllowed == [pc |-> "idle", resp |-> HttpError("Method not allowed", 405)]
    IN  IF r.Method = "POST"
        THEN IF Len(parts) > 1 /\ parts[2] = sAdd
             THEN [pc |-> "aQuery", resp |-> NoResp]
             ELSE notAllowed
        ELSE IF r.Method = "GET"
        THEN IF Len(parts) > 1
             THEN IF parts[2] = sDraw
                  THEN IF Len(parts) < 3
                       THEN [pc |-> "idle",
                             resp |-> HttpError("Draw action requires parameters", 400)]
                       ELSE [pc |-> "send", resp |-> NoResp]
                  ELSE IF parts[2] = sShuffle
                  THEN [pc |-> "send", resp |-> NoResp]
                  ELSE IF parts[2] = sShow
                  THEN IF Len(parts) < 4
                       THEN [pc |-> "idle",
                             resp |-> HttpError("Show action requires parameters", 400)]
                       ELSE IF parts[3] = <<"0">>
                       THEN [pc |-> "sdExec", resp |-> NoResp]
                       ELSE IF parts[3] = <<"1">>
                       THEN [pc |-> "suExec", resp |-> NoResp]
                       ELSE [pc |-> "idle", resp |-> HttpError("Invalid show type", 400)]
                  ELSE notAllowed
             ELSE notAllowed
        ELSE notAllowed

\* addCards and the two show functions start with mu.Lock(): as in
\* createDeck_Lock, the arrival and the lock are one step
handleDeckRequests(p, requests) ==
    /\ Fresh(p)
    /\ nreq < MaxReq
    /\ \E r \in requests :
          LET to == Route(r)
          IN  IF to.pc = "idle"
              THEN /\ out' = Exchange(r, to.resp)
                   /\ UNCHANGED <<req, pc, mu>>
              ELSE /\ out' = NoOut
                   /\ req' = [req EXCEPT ![p] = r]
                   /\ pc' = [pc EXCEPT ![p] = to.pc]
                   /\ IF to.pc = "send" THEN UNCHANGED mu
                      ELSE mu = 0 /\ mu' = p
    /\ nreq' = nreq + 1
    /\ UNCHANGED <<db, loc, wreq, hist>>

deckIDOf(r) == Split(r.Path, "/")[1]

\* the Request a handler sends on requestChannel
ChanRequest(p) ==
    LET parts == Split(req[p].Path, "/")
    IN  IF parts[2] = sDraw
        THEN [Type |-> "draw", DeckID |-> parts[1], Params |-> <<parts[3]>>,
              ReplyCh |-> p]
        ELSE [Type |-> "shuffle", DeckID |-> parts[1], Params |-> <<>>,
              ReplyCh |-> p]

(***************************************************************************)
(* handleRequests: the worker goroutine.  requestChannel is unbuffered, so *)
(* the send of handler p and the receive of the worker are one step.       *)
(***************************************************************************)
handleRequests(p) ==
    /\ pc[Worker] = "recv"
    /\ pc[p] = "send"
    /\ wreq' = ChanRequest(p)
    /\ pc' = [pc EXCEPT ![p] = "wait", ![Worker] = "wLock"]
    /\ out' = NoOut
    /\ UNCHANGED <<db, mu, req, loc, hist, nreq>>

\* WorkerLock without the wait for mu
WorkerLock_NoWait(type) ==
    /\ pc[Worker] = "wLock"
    /\ wreq.Type = type
    /\ mu' = Worker
    /\ pc' = [pc EXCEPT ![Worker] = "wQuery"]
    /\ out' = NoOut
    /\ UNCHANGED <<db, req, loc, wreq, hist, nreq>>

\* mu.Lock() at the head of drawCards and of shuffleDeck
WorkerLock(type) ==
    /\ pc[Worker] = "wLock"
    /\ wreq.Type = type
    /\ mu = 0
    /\ mu' = Worker
    /\ pc' = [pc EXCEPT ![Worker] = "wQuery"]
    /\ out' = NoOut
    /\ UNCHANGED <<db, req, loc, wreq, hist, nreq>>

\* req.ReplyCh <- response: the reply channel is unbuffered, so the send of
\* the worker and the receive of the handler (then handleResponse) are one step
WorkerReply(type) ==
    /\ pc[Worker] = "wReply"
    /\ wreq.Type = type
    /\ pc[wreq.ReplyCh] = "wait"
    /\ out' = Exchange(req[wreq.ReplyCh], handleResponse(loc[Worker].out))
    /\ req' = [req EXCEPT ![wreq.ReplyCh] = NoReq]
    /\ pc' = [pc EXCEPT ![wreq.ReplyCh] = "idle", ![Worker] = "wUnlock"]
    /\ UNCHANGED <<db, mu, loc, wreq, hist, nreq>>

\* the deferred mu.Unlock(), then back to the range over requestChannel
WorkerUnlock(type) ==
    /\ pc[Worker] = "wUnlock"
    /\ wreq.Type = type
    /\ mu' = 0
    /\ pc' = [pc EXCEPT ![Worker] = "recv"]
    /\ loc' = [loc EXCEPT ![Worker] = NoLoc]
    /\ wreq' = NoWreq
    /\ out' = NoOut
    /\ UNCHANGED <<db, req, hist, nreq>>

\* WorkerFail returning without the send on the reply channel
WorkerFail_NoReply(msg) ==
    /\ loc' = [loc EXCEPT ![Worker] = [NoLoc EXCEPT !.out = ErrResponse(msg)]]
    /\ pc' = [pc EXCEPT ![Worker] = "wUnlock"]
    /\ out' = NoOut

\* req.ReplyCh <- Response{Error: ...}; return
WorkerFail(msg) ==
    /\ loc' = [loc EXCEPT ![Worker] = [NoLoc EXCEPT !.out = ErrResponse(msg)]]
    /\ pc' = [pc EXCEPT ![Worker] = "wReply"]
    /\ out' = NoOut

(***************************************************************************)
(* drawCards.                                                              *)
(***************************************************************************)
drawCards_Lock == WorkerLock("draw")

\* IsEmpty testing for a nil slice only
IsEmpty_NilOnly(upcomingCards) == upcomingCards.nil

\* if len(upcomingCards) == 0
IsEmpty(upcomingCards) == len(upcomingCards) = 0

\* strconv.Atoi of the count, SELECT upcoming, json.Unmarshal, the empty check
drawCards_Query ==
    /\ pc[Worker] = "wQuery"
    /\ wreq.Type = "draw"
    /\ LET a == Atoi(wreq.Params[1])
       IN  IF a.err \/ a.n < 1 THEN WorkerFail("Invalid number of cards")
           ELSE IF wreq.DeckID \notin DOMAIN db THEN WorkerFail("Deck not found")
           ELSE LET upcomingCards == Unmarshal(db[wreq.DeckID].upcoming)
                IN  IF IsEmpty(upcomingCards) THEN WorkerFail("Deck empty")
                    ELSE /\ loc' = [loc EXCEPT ![Worker] =
                                      [NoLoc EXCEPT !.nbrCarte = a.n,
                                                    !.upcomingCards = upcomingCards]]
                         /\ pc' = [pc EXCEPT ![Worker] = "wUpdate"]
                         /\ out' = NoOut
    /\ UNCHANGED <<db, mu, req, wreq, hist, nreq>>

\* Clamp one short of the pile
Clamp_OneShort(nbrCarte, upcomingCards) ==
    IF nbrCarte > len(upcomingCards) THEN len(upcomingCards) - 1 ELSE nbrCarte

\* nbrCarte after the clamp to len(upcomingCards)
Clamp(nbrCarte, upcomingCards) ==
    IF nbrCarte > len(upcomingCards) THEN len(upcomingCards) ELSE nbrCarte

\* upcomingCards[:n] and upcomingCards[n:] of a slice that is not empty
Front(s, n) == MakeSlice(SubSeq(s.elems, 1, n))
Rest(s, n) == MakeSlice(SubSeq(s.elems, n + 1, Len(s.elems)))

\* the columns drawCards writes in its UPDATE: upcoming alone.  drawnWithTime
\* is built from the drawn cards and time.Now() and then neither stored nor
\* returned.
drawCards_Row(row, drawnCards, upcomingCards) ==
    [row EXCEPT !.upcoming = Marshal(upcomingCards)]

\* the clamp, the split, UPDATE decks SET upcoming, and the response
drawCards_Update ==
    /\ pc[Worker] = "wUpdate"
    /\ wreq.Type = "draw"
    /\ LET id == wreq.DeckID
           nbrCarte == Clamp(loc[Worker].nbrCarte, loc[Worker].upcomingCards)
           drawnCards == Front(loc[Worker].upcomingCards, nbrCarte)
           upcomingCards == Rest(loc[Worker].upcomingCards, nbrCarte)
       IN  /\ db' = [db EXCEPT ![id] = drawCards_Row(db[id], drawnCards, upcomingCards)]
           /\ hist' = [hist EXCEPT ![id].drawn = @ \o Encode(drawnCards),
                                    ![id].draws = Append(@, [n |-> loc[Worker].nbrCarte,
                                                             k |-> len(drawnCards)])]
           /\ loc' = [loc EXCEPT ![Worker].out =
                         OkResponse(id, drawnCards, len(upcomingCards))]
    /\ pc' = [pc EXCEPT ![Worker] = "wReply"]
    /\ out' = NoOut
    /\ UNCHANGED <<mu, req, wreq, nreq>>

drawCards_Reply == WorkerReply("draw")

drawCards_Unlock == WorkerUnlock("draw")

(***************************************************************************)
(* shuffleDeck.                                                            *)
(***************************************************************************)
shuffleDeck_Lock == WorkerLock("shuffle")

\* SELECT upcoming, json.Unmarshal
shuffleDeck_Query ==
    /\ pc[Worker] = "wQuery"
    /\ wreq.Type = "shuffle"
    /\ IF wreq.DeckID \notin DOMAIN db THEN WorkerFail("Deck not found")
       ELSE /\ loc' = [loc EXCEPT ![Worker] =
                        [NoLoc EXCEPT !.upcomingCards =
                                         Unmarshal(db[wreq.DeckID].upcoming)]]
            /\ pc' = [pc EXCEPT ![Worker] = "wUpdate"]
            /\ out' = NoOut
    /\ UNCHANGED <<db, mu, req, wreq, hist, nreq>>

\* rand.Seed, rand.Shuffle, UPDATE decks SET upcoming, and the response
shuffleDeck_Update ==
    /\ pc[Worker] = "wUpdate"
    /\ wreq.Type = "shuffle"
    /\ \E seed \in 0..MaxSeed :
          LET id == wreq.DeckID
              upcomingCards == Shuffle(loc[Worker].upcomingCards, seed)
          IN  /\ db' = [db EXCEPT ![id].upcoming = Marshal(upcomingCards)]
              /\ loc' = [loc EXCEPT ![Worker].out =
                            OkResponse(id, upcomingCards, len(upcomingCards))]
    /\ pc' = [pc EXCEPT ![Worker] = "wReply"]
    /\ out' = NoOut
    /\ UNCHANGED <<mu, req, wreq, hist, nreq>>

shuffleDeck_Reply == WorkerReply("shuffle")

shuffleDeck_Unlock == WorkerUnlock("shuffle")

(***************************************************************************)
(* addCards, showDrawnCards, showUpcomingCards: run by the handler itself. *)
(***************************************************************************)
\* the response is written, then the deferred mu.Unlock() runs
HandlerReturn(p, r) ==
    /\ out' = Exchange(req[p], r)
    /\ req' = [req EXCEPT ![p] = NoReq]
    /\ mu' = 0
    /\ pc' = [pc EXCEPT ![p] = "idle"]
    /\ loc' = [loc EXCEPT ![p] = NoLoc]

\* SELECT cards, upcoming and the two json.Unmarshal
addCards_Query(p) ==
    /\ pc[p] = "aQuery"
    /\ LET deckID == deckIDOf(req[p])
       IN  IF deckID \notin DOMAIN db
           THEN HandlerReturn(p, HttpError("Deck not found", 404))
           ELSE /\ loc' = [loc EXCEPT ![p] =
                             [NoLoc EXCEPT !.existingCards = Unmarshal(db[deckID].cards),
                                           !.upcomingCards = Unmarshal(db[deckID].upcoming)]]
                /\ pc' = [pc EXCEPT ![p] = "aUpdate"]
                /\ out' = NoOut
                /\ UNCHANGED <<mu, req>>
    /\ UNCHANGED <<db, wreq, hist, nreq>>

\* parseCards, the append, UPDATE decks SET upcoming, and the response
addCards_Update(p) ==
    /\ pc[p] = "aUpdate"
    /\ LET deckID == deckIDOf(req[p])
           newCards == parseCards(req[p].Query)
           upcomingCards == append(loc[p].upcomingCards, newCards.elems)
           allCards == append(loc[p].existingCards, upcomingCards.elems)
       IN  /\ db' = [db EXCEPT ![deckID].upcoming = Marshal(upcomingCards)]
           /\ hist' = [hist EXCEPT ![deckID].added = @ \o Encode(newCards)]
           /\ HandlerReturn(p, DeckResp(deckID, allCards, len(upcomingCards)))
    /\ UNCHANGED <<wreq, nreq>>

\* ShowResult refusing a count equal to the length of the pile
ShowResult_StrictUpper(list, countStr, fromEnd) ==
    LET a == Atoi(countStr)
        count == a.n
    IN  IF a.err \/ count < 0 \/ count >= len(list)
        THEN HttpError("Invalid count", 400)
        ELSE IF count > 0
        THEN ListResp(MakeSlice(IF fromEnd
                                THEN SubSeq(list.elems, len(list) - count + 1, len(list))
                                ELSE SubSeq(list.elems, 1, count)))
        ELSE ListResp(list)

\* ShowResult taking the last entries whatever the pile
ShowResult_Last(list, countStr, fromEnd) ==
    LET a == Atoi(countStr)
        count == a.n
    IN  IF a.err \/ count < 0 \/ count > len(list)
        THEN HttpError("Invalid count", 400)
        ELSE IF count > 0
        THEN ListResp(MakeSlice(SubSeq(list.elems, len(list) - count + 1, len(list))))
        ELSE ListResp(list)

\* the count of a show request and the slice it selects: the last count
\* entries (fromEnd) or the first count entries, all of them for count 0
ShowResult(list, countStr, fromEnd) ==
    LET a == Atoi(countStr)
        count == a.n
    IN  IF a.err \/ count < 0 \/ count > len(list)
        THEN HttpError("Invalid count", 400)
        ELSE IF count > 0
        THEN ListResp(MakeSlice(IF fromEnd
                                THEN SubSeq(list.elems, len(list) - count + 1, len(list))
                                ELSE SubSeq(list.elems, 1, count)))
        ELSE ListResp(list)

countStrOf(r) == Split(r.Path, "/")[4]

showDrawnCards_Exec(p) ==
    /\ pc[p] = "sdExec"
    /\ LET deckID == deckIDOf(req[p])
       IN  IF deckID \notin DOMAIN db
           THEN HandlerReturn(p, HttpError("Deck not found", 404))
           ELSE HandlerReturn(p, ShowResult(Unmarshal(db[deckID].piged),
                                            countStrOf(req[p]), TRUE))
    /\ UNCHANGED <<db, wreq, hist, nreq>>

showUpcomingCards_Exec(p) ==
    /\ pc[p] = "suExec"
    /\ LET deckID == deckIDOf(req[p])
       IN  IF deckID \notin DOMAIN db
           THEN HandlerReturn(p, HttpError("Deck not found", 404))
           ELSE HandlerReturn(p, ShowResult(Unmarshal(db[deckID].upcoming),
                                            countStrOf(req[p]), FALSE))
    /\ UNCHANGED <<db, wreq, hist, nreq>>

(***************************************************************************)
(* The service.                                                            *)
(***************************************************************************)
Next ==
    \/ \E p \in Handlers : createDeck_Lock(p, NewPaths)
    \/ \E p \in Handlers : createDeck_Exec(p)
    \/ \E p \in Handlers : handleDeckRequests(p, DeckRequests)
    \/ \E p \in Handlers : handleRequests(p)
    \/ drawCards_Lock
    \/ drawCards_Query
    \/ drawCards_Update
    \/ drawCards_Reply
    \/ drawCards_Unlock
    \/ shuffleDeck_Lock
    \/ shuffleDeck_Query
    \/ shuffleDeck_Update
    \/ shuffleDeck_Reply
    \/ shuffleDeck_Unlock
    \/ \E p \in Handlers : addCards_Query(p)
    \/ \E p \in Handlers : addCards_Update(p)
    \/ \E p \in Handlers : showDrawnCards_Exec(p)
    \/ \E p \in Handlers : showUpcomingCards_Exec(p)

Spec == Init /\ [][Next]_vars

(***************************************************************************)
(* The service under the scheduling of the Go runtime: a goroutine that    *)
(* can run does run (weak fairness of every step a goroutine takes on its  *)
(* own); a goroutine blocked in a send on requestChannel or in mu.Lock()   *)
(* is queued, and is served in its turn although others keep coming        *)
(* (strong fairness of the hand-over and of the worker's Lock).  The       *)
(* arrival of a request is left to the clients.  Decks are created empty   *)
(* (or refused) and the first one is filled by add-cards: the piles stay   *)
(* short, and every path through the handlers and the worker is still      *)
(* taken.                                                                  *)
(***************************************************************************)
LivePaths == { <<"0">>, <<"1", "1">> }

LiveRequests ==
    {HttpRequest("deck", "GET", JoinPath(<<NewUUID(1), sDraw, c>>), <<>>) :
        c \in {<<"5">>, <<"0">>}}
    \cup {HttpRequest("deck", "GET", JoinPath(<<NewUUID(1), sShuffle>>), <<>>),
          HttpRequest("deck", "POST", JoinPath(<<NewUUID(1), sAdd>>), <<"k", ",", BadByte>>),
          HttpRequest("deck", "GET", JoinPath(<<NewUUID(1), sShow, <<"0">>, <<"0">> >>), <<>>),
          HttpRequest("deck", "GET", JoinPath(<<NewUUID(1), sShow, <<"1">>, <<"0">> >>), <<>>)}

NextLive ==
    \/ \E p \in Handlers : createDeck_Lock(p, LivePaths)
    \/ \E p \in Handlers : createDeck_Exec(p)
    \/ \E p \in Handlers : handleDeckRequests(p, LiveRequests)
    \/ \E p \in Handlers : handleRequests(p)
    \/ drawCards_Lock
    \/ drawCards_Query
    \/ drawCards_Update
    \/ drawCards_Reply
    \/ drawCards_Unlock
    \/ shuffleDeck_Lock
    \/ shuffleDeck_Query
    \/ shuffleDeck_Update
    \/ shuffleDeck_Reply
    \/ shuffleDeck_Unlock
    \/ \E p \in Handlers : addCards_Query(p)
    \/ \E p \in Handlers : addCards_Update(p)
    \/ \E p \in Handlers : showDrawnCards_Exec(p)
    \/ \E p \in Handlers : showUpcomingCards_Exec(p)

Fairness ==
    /\ \A p \in Handlers :
          /\ SF_vars(handleRequests(p))
          /\ WF_vars(createDeck_Exec(p))
          /\ WF_vars(addCards_Query(p))
          /\ WF_vars(addCards_Update(p))
          /\ WF_vars(showDrawnCards_Exec(p))
          /\ WF_vars(showUpcomingCards_Exec(p))
    /\ SF_vars(drawCards_Lock)
    /\ WF_vars(drawCards_Query)
    /\ WF_vars(drawCards_Update)
    /\ WF_vars(drawCards_Reply)
    /\ WF_vars(drawCards_Unlock)
    /\ SF_vars(shuffleDeck_Lock)
    /\ WF_vars(shuffleDeck_Query)
    /\ WF_vars(shuffleDeck_Update)
    /\ WF_vars(shuffleDeck_Reply)
    /\ WF_vars(shuffleDeck_Unlock)

SpecLive == Init /\ [][NextLive]_vars /\ Fairness

(***************************************************************************)
(* The service under create requests alone, over every pack count.         *)
(***************************************************************************)
NextGen ==
    \/ \E p \in Handlers : createDeck_Lock(p, GenPaths)
    \/ \E p \in Handlers : createDeck_Exec(p)

SpecGen == Init /\ [][NextGen]_vars

(***************************************************************************)
(* The service started on a store (deck.db outlives the process) that      *)
(* holds one deck of NumHandlers upcoming cards, as /deck/new/0 followed   *)
(* by an add of NumHandlers codes leaves it, and then asked for draws.     *)
(***************************************************************************)
RaceCards == [i \in 1..NumHandlers |-> Card(ranks[i] \o suits[1], <<>>, <<>>, <<>>)]

RaceRequests ==
    {HttpRequest("deck", "GET", JoinPath(<<NewUUID(1), sDraw, c>>), <<>>) :
        c \in {<<"1">>, <<"2">>}}

InitRace ==
    /\ db = (NewUUID(1) :> [cards |-> Marshal(generateCards(0, FALSE)),
                            piged |-> Marshal(MakeSlice(<<>>)),
                            upcoming |-> Marshal(MakeSlice(RaceCards))])
    /\ hist = (NewUUID(1) :> [drawn |-> <<>>, draws |-> <<>>, added |-> RaceCards])
    /\ mu = 0
    /\ pc = [p \in Procs |-> IF p = Worker THEN "recv" ELSE "idle"]
    /\ req = [p \in Handlers |-> NoReq]
    /\ out = NoOut
    /\ loc = [p \in Procs |-> NoLoc]
    /\ wreq = NoWreq
    /\ nreq = 0

NextRace ==
    \/ \E p \in Handlers : handleDeckRequests(p, RaceRequests)
    \/ \E p \in Handlers : handleRequests(p)
    \/ drawCards_Lock
    \/ drawCards_Query
    \/ drawCards_Update
    \/ drawCards_Reply
    \/ drawCards_Unlock

SpecRace == InitRace /\ [][NextRace]_vars

(***************************************************************************)
(* The service under create requests alone, with room for one deck more    *)
(* than MaxDecks, so that a create finds a deck already stored.            *)
(***************************************************************************)
CreatePaths ==
    { <<"1">>, <<"0">>, <<"1", "1">>, <<"-", "1">>, <<"x">>,
      JoinPath(<<NumStr(2), sTrue>>), JoinPath(<<NumStr(1), sFalse>>) }

NextCreate ==
    \/ \E p \in Handlers : createDeck_LockUpTo(p, CreatePaths, MaxDecks + 1)
    \/ \E p \in Handlers : createDeck_Exec(p)

SpecCreate == Init /\ [][NextCreate]_vars

(***************************************************************************)
(* The service asked, next to create requests, for operations on an        *)
(* identifier that uuid.New() never hands out: the steps that need a       *)
(* stored deck (the three UPDATEs) cannot happen and are left out.         *)
(***************************************************************************)
MissingId == NewUUID(0)

MissingRequests ==
    {HttpRequest("deck", "GET", JoinPath(<<MissingId, sDraw, c>>), <<>>) :
        c \in {<<"5">>, <<"0">>}}
    \cup {HttpRequest("deck", "GET", JoinPath(<<MissingId, sShuffle>>), <<>>),
          HttpRequest("deck", "POST", JoinPath(<<MissingId, sAdd>>), <<"k">>)}
    \cup {HttpRequest("deck", "GET", JoinPath(<<MissingId, sShow, t, c>>), <<>>) :
            t \in {<<"0">>, <<"1">>}, c \in ShowCounts}

NextMissing ==
    \/ \E p \in Handlers : createDeck_Lock(p, NewPaths)
    \/ \E p \in Handlers : createDeck_Exec(p)
    \/ \E p \in Handlers : handleDeckRequests(p, MissingRequests)
    \/ \E p \in Handlers : handleRequests(p)
    \/ drawCards_Lock
    \/ drawCards_Query
    \/ drawCards_Reply
    \/ drawCards_Unlock
    \/ shuffleDeck_Lock
    \/ shuffleDeck_Query
    \/ shuffleDeck_Reply
    \/ shuffleDeck_Unlock
    \/ \E p \in Handlers : addCards_Query(p)
    \/ \E p \in Handlers : showDrawnCards_Exec(p)
    \/ \E p \in Handlers : showUpcomingCards_Exec(p)

SpecMissing == Init /\ [][NextMissing]_vars

(***************************************************************************)
(* The service asked, next to create requests, for draws with counts of    *)
(* every kind, on the first deck and on an identifier without a record.    *)
(***************************************************************************)
CountParams == { <<"5">>, <<"0">>, <<"-", "1">>, <<"x">>, <<>> }

CountRequests ==
    {HttpRequest("deck", "GET", JoinPath(<<id, sDraw, c>>), <<>>) :
        id \in {NewUUID(1)}, c \in CountParams}
    \cup {HttpRequest("deck", "GET", JoinPath(<<MissingId, sDraw, <<"-", "1">> >>), <<>>)}

NextCount ==
    \/ \E p \in Handlers : createDeck_Lock(p, {<<"1">>})
    \/ \E p \in Handlers : createDeck_Exec(p)
    \/ \E p \in Handlers : handleDeckRequests(p, CountRequests)
    \/ \E p \in Handlers : handleRequests(p)
    \/ drawCards_Lock
    \/ drawCards_Query
    \/ drawCards_Update
    \/ drawCards_Reply
    \/ drawCards_Unlock

SpecCount == Init /\ [][NextCount]_vars

(***************************************************************************)
(* The service asked, next to create requests, for the two show            *)
(* operations with counts of every kind on the first deck.                 *)
(***************************************************************************)
ShowParams ==
    { <<"0">>, <<"2">>, <<"5", "2">>, <<"5", "3">>, <<"-", "1">>, <<"x">> }

ShowRequests ==
    {HttpRequest("deck", "GET", JoinPath(<<NewUUID(1), sShow, t, c>>), <<>>) :
        t \in {<<"0">>, <<"1">>}, c \in ShowParams}

NextShow ==
    \/ \E p \in Handlers : createDeck_Lock(p, {<<"1">>, <<"0">>})
    \/ \E p \in Handlers : createDeck_Exec(p)
    \/ \E p \in Handlers : handleDeckRequests(p, ShowRequests)
    \/ \E p \in Handlers : showDrawnCards_Exec(p)
    \/ \E p \in Handlers : showUpcomingCards_Exec(p)

SpecShow == Init /\ [][NextShow]_vars

(***************************************************************************)
(* The service asked, next to create requests, for add-cards on the first  *)
(* deck with cards parameters of every kind: absent or empty, one code,    *)
(* several codes, empty codes, a byte that is no UTF-8.                    *)
(***************************************************************************)
AddParams ==
    { <<>>, <<"2", "h">>, <<"k", ",", BadByte>>, <<",">>, <<"a", ",", "a", ",", "a">> }

AddRequests ==
    {HttpRequest("deck", "POST", JoinPath(<<NewUUID(1), sAdd>>), q) : q \in AddParams}

NextAdd ==
    \/ \E p \in Handlers : createDeck_Lock(p, {<<"1">>, <<"0">>})
    \/ \E p \in Handlers : createDeck_Exec(p)
    \/ \E p \in Handlers : handleDeckRequests(p, AddRequests)
    \/ \E p \in Handlers : addCards_Query(p)
    \/ \E p \in Handlers : addCards_Update(p)

SpecAdd == Init /\ [][NextAdd]_vars

(***************************************************************************)
(* The piles of a stored deck, and the steps the properties speak of.      *)
(***************************************************************************)
Full(d) == db[d].cards.arr
Drawn(d) == db[d].piged.arr
Upcoming(d) == db[d].upcoming.arr

Codes(cards) == [i \in 1..Len(cards) |-> cards[i].Code]

Min(a, b) == IF a < b THEN a ELSE b

\* the parts of the path of the exchange just completed
OutParts == Split(out.req.Path, "/")

OutIsDraw == out.req.Entry = "deck" /\ Len(OutParts) = 3 /\ OutParts[2] = sDraw

OutIsShow(type) ==
    /\ out.req.Entry = "deck"
    /\ Len(OutParts) = 4
    /\ OutParts[2] = sShow
    /\ OutParts[3] = type

\* the worker runs the UPDATE of a draw, of a shuffle
DrawUpdateStep ==
    pc[Worker] = "wUpdate" /\ wreq.Type = "draw" /\ pc'[Worker] = "wReply"

ShuffleUpdateStep ==
    pc[Worker] = "wUpdate" /\ wreq.Type = "shuffle" /\ pc'[Worker] = "wReply"

Occurrences(cards, c) == Cardinality({i \in 1..Len(cards) : cards[i] = c})

IsPermutation(a, b) ==
    /\ Len(a) = Len(b)
    /\ \A i \in 1..Len(a) : Occurrences(a, a[i]) = Occurrences(b, a[i])

(***************************************************************************)
(* C1.  Card conservation: for every stored deck, the length of the        *)
(* persisted drawn pile plus the length of the persisted upcoming pile is  *)
(* the length of full plus the number of cards added by add-cards.         *)
(* The code never writes the drawn column, so a draw breaks it.            *)
(***************************************************************************)
C1_Conservation ==
    \A d \in DOMAIN db :
        Len(Drawn(d)) + Len(Upcoming(d)) = Len(Full(d)) + Len(hist[d].added)

(***************************************************************************)
(* C2.  The UPDATE of a draw of effective count k removes the first k      *)
(* cards of the persisted upcoming pile and, in the same step, appends     *)
(* them in the same order to the end of the persisted drawn pile.          *)
(* The code writes the upcoming column alone.                              *)
(***************************************************************************)
C2_DrawMovesCards ==
    [][DrawUpdateStep =>
         LET d == wreq.DeckID
             k == Min(loc[Worker].nbrCarte, Len(Upcoming(d)))
         IN  /\ db'[d].upcoming.arr = SubSeq(Upcoming(d), k + 1, Len(Upcoming(d)))
             /\ Codes(db'[d].piged.arr)
                  = Codes(Drawn(d)) \o Codes(SubSeq(Upcoming(d), 1, k))]_vars

(***************************************************************************)
(* C3.  Concurrent draws: when a deck that held NumHandlers cards has      *)
(* served NumHandlers draws of 1 card and every request is answered, each  *)
(* card was returned exactly once, the deck has no upcoming card left and  *)
(* reports remaining 0, and its persisted drawn pile has NumHandlers       *)
(* cards.  The draws are serialised and hand out each card once, but the   *)
(* drawn column is never written.                                          *)
(***************************************************************************)
AllAnswered ==
    /\ \A p \in Handlers : pc[p] = "idle"
    /\ pc[Worker] \in {"recv", "wUnlock"}

RaceOver(d) ==
    /\ AllAnswered
    /\ Len(Full(d)) + Len(hist[d].added) = NumHandlers
    /\ Len(hist[d].draws) = NumHandlers
    /\ \A i \in 1..Len(hist[d].draws) : hist[d].draws[i].n = 1

EachCardOnce(d) ==
    /\ IsPermutation(hist[d].drawn, Full(d) \o hist[d].added)
    /\ \A i \in 1..Len(hist[d].draws) : hist[d].draws[i].k = 1

C3_ConcurrentDraws ==
    \A d \in DOMAIN db :
        RaceOver(d) =>
            /\ EachCardOnce(d)
            /\ Upcoming(d) = <<>>
            /\ OutIsDraw => out.resp.Remaining = 0
            /\ Len(Drawn(d)) = NumHandlers

(***************************************************************************)
(* C4.  Mutual exclusion: at most one goroutine is between its mu.Lock()   *)
(* and its mu.Unlock(), the holder is the one mu records, and a goroutine  *)
(* about to write a deck still holds what the store holds: nothing wrote   *)
(* the deck between its read and its write.                                *)
(***************************************************************************)
InCS(p) ==
    IF p = Worker THEN pc[p] \in {"wQuery", "wUpdate", "wReply", "wUnlock"}
    ELSE pc[p] \in {"cExec", "aQuery", "aUpdate", "sdExec", "suExec"}

C4_MutualExclusion ==
    /\ \A p, q \in Procs : InCS(p) /\ InCS(q) => p = q
    /\ \A p \in Procs : InCS(p) => mu = p
    /\ pc[Worker] = "wUpdate" =>
          loc[Worker].upcomingCards = Unmarshal(db[wreq.DeckID].upcoming)
    /\ \A p \in Handlers : pc[p] = "aUpdate" =>
          /\ loc[p].upcomingCards = Unmarshal(db[deckIDOf(req[p])].upcoming)
          /\ loc[p].existingCards = Unmarshal(db[deckIDOf(req[p])].cards)

\* addCards is between its SELECT and its UPDATE while the worker, holding
\* a request, waits at mu.Lock()
C4_Witness == pc[Worker] = "wLock" /\ \E p \in Handlers : pc[p] = "aUpdate"

(***************************************************************************)
(* C5.  Over-draw clamps: a draw whose count exceeds the length of the     *)
(* (non-empty) upcoming pile succeeds, returns exactly the cards that      *)
(* were in upcoming, in order, stores an empty upcoming pile and reports   *)
(* remaining 0; the client receives that response with status 200.         *)
(***************************************************************************)
DrawReplyStep ==
    pc[Worker] = "wReply" /\ wreq.Type = "draw" /\ pc'[Worker] = "wUnlock"

C5_OverDrawClamps ==
    [][/\ (DrawUpdateStep /\ loc[Worker].nbrCarte > Len(Upcoming(wreq.DeckID))) =>
            /\ Len(Upcoming(wreq.DeckID)) > 0
            /\ loc'[Worker].out.Error = ""
            /\ Encode(loc'[Worker].out.Cards) = Upcoming(wreq.DeckID)
            /\ loc'[Worker].out.Remaining = 0
            /\ db'[wreq.DeckID].upcoming = Marshal(MakeSlice(<<>>))
       /\ (DrawReplyStep /\ loc[Worker].out.Error = "") =>
            /\ out'.resp.status = 200
            /\ out'.resp.Cards = Encode(loc[Worker].out.Cards)
            /\ out'.resp.Remaining = loc[Worker].out.Remaining
            /\ out'.resp.Remaining = Len(Upcoming(wreq.DeckID))
            /\ db' = db]_vars

\* a client asked for more cards than the deck held and got them all
C5_Witness ==
    /\ OutIsDraw
    /\ out.resp.status = 200
    /\ Len(out.resp.Cards) > 1
    /\ Atoi(OutParts[3]).n > Len(out.resp.Cards)
    /\ out.resp.Remaining = 0
    /\ Upcoming(OutParts[1]) = <<>>

(***************************************************************************)
(* C6.  A draw with a valid positive count on an existing deck whose       *)
(* upcoming pile is empty fails with "Deck empty", returns no cards and    *)
(* leaves the store unchanged.                                             *)
(***************************************************************************)
DrawQueryStep ==
    pc[Worker] = "wQuery" /\ wreq.Type = "draw" /\ pc'[Worker] # "wQuery"

ValidCount(countStr) == ~Atoi(countStr).err /\ Atoi(countStr).n >= 1

C6_EmptyDeck ==
    [][/\ (/\ DrawQueryStep
           /\ ValidCount(wreq.Params[1])
           /\ wreq.DeckID \in DOMAIN db
           /\ Len(Upcoming(wreq.DeckID)) = 0) =>
            /\ pc'[Worker] = "wReply"
            /\ loc'[Worker].out = ErrResponse("Deck empty")
            /\ db' = db
       /\ (DrawReplyStep /\ loc[Worker].out.Error = "Deck empty") =>
            /\ out'.resp = HttpError("Deck empty", 500)
            /\ out'.resp.Cards = <<>>
            /\ db' = db]_vars

\* a client drew from a deck that a draw had emptied, and was refused
C6_Witness ==
    /\ OutIsDraw
    /\ ValidCount(OutParts[3])
    /\ out.resp = HttpError("Deck empty", 500)
    /\ OutParts[1] \in DOMAIN db
    /\ Upcoming(OutParts[1]) = <<>>
    /\ Len(Full(OutParts[1])) > 0

(***************************************************************************)
(* C7.  Shuffle stores an upcoming pile that is a permutation of the one   *)
(* stored before (same cards, same multiplicities), leaves drawn and full  *)
(* as they were, and returns the new order with remaining its length.      *)
(***************************************************************************)
C7_ShufflePermutes ==
    [][ShuffleUpdateStep =>
         LET d == wreq.DeckID
         IN  /\ IsPermutation(db'[d].upcoming.arr, Upcoming(d))
             /\ db'[d].piged = db[d].piged
             /\ db'[d].cards = db[d].cards
             /\ Encode(loc'[Worker].out.Cards) = db'[d].upcoming.arr
             /\ loc'[Worker].out.Remaining = Len(db'[d].upcoming.arr)
             /\ loc'[Worker].out.Error = ""]_vars

\* a client received a shuffled deck whose order is not the stored one of before
C7_Witness ==
    /\ out.req.Entry = "deck"
    /\ Len(OutParts) = 2
    /\ OutParts[2] = sShuffle
    /\ out.resp.status = 200
    /\ Len(out.resp.Cards) > 2
    /\ out.resp.Cards # Full(OutParts[1])
    /\ out.resp.Cards = Upcoming(OutParts[1])

(***************************************************************************)
(* C8.  ShowDrawn with count 0 returns every card drawn so far from the    *)
(* deck, in draw order, and with a count k from 1 to the number of cards   *)
(* drawn it returns the k most recently drawn.                             *)
(* The drawn column is never written, so it stays empty.                   *)
(***************************************************************************)
LastOf(cards, k) == SubSeq(cards, Len(cards) - k + 1, Len(cards))

C8_ShowDrawn ==
    (OutIsShow(<<"0">>) /\ OutParts[1] \in DOMAIN db /\ ~Atoi(OutParts[4]).err) =>
        LET k == Atoi(OutParts[4]).n
            drawn == Codes(hist[OutParts[1]].drawn)
        IN  /\ k = 0 => (out.resp.status = 200 /\ Codes(out.resp.Cards) = drawn)
            /\ (1 <= k /\ k <= Len(drawn)) =>
                  (out.resp.status = 200 /\ Codes(out.resp.Cards) = LastOf(drawn, k))

(***************************************************************************)
(* C9.  ShowUpcoming with a count k from 1 to the length of the upcoming   *)
(* pile returns the first k cards of the stored upcoming order, with       *)
(* count 0 the whole pile, and writes nothing to the store.                *)
(***************************************************************************)
ShowUpcomingStep(p) == pc[p] = "suExec" /\ pc'[p] = "idle"

C9_ShowUpcoming ==
    [][\A p \in Handlers :
         (ShowUpcomingStep(p) /\ deckIDOf(req[p]) \in DOMAIN db) =>
            LET a == Atoi(countStrOf(req[p]))
                up == Upcoming(deckIDOf(req[p]))
            IN  /\ db' = db
                /\ (~a.err /\ a.n = 0) =>
                      (out'.resp.status = 200 /\ out'.resp.Cards = up)
                /\ (~a.err /\ 1 <= a.n /\ a.n <= Len(up)) =>
                      (out'.resp.status = 200 /\ out'.resp.Cards = SubSeq(up, 1, a.n))]_vars

\* a client asked for the next 2 cards of a deck that holds more and got them
C9_Witness ==
    /\ OutIsShow(<<"1">>)
    /\ out.resp.status = 200
    /\ Atoi(OutParts[4]).n = 2
    /\ OutParts[1] \in DOMAIN db
    /\ Len(Upcoming(OutParts[1])) > 2
    /\ out.resp.Cards = SubSeq(Upcoming(OutParts[1]), 1, 2)

(***************************************************************************)
(* C10.  For every pack count 1..10 and both joker settings, the deck a    *)
(* create request generates has exactly 52*packs + 2*packs*jokers cards:   *)
(* per pack the suits h, d, c, s in that order, each with the ranks        *)
(* 2..10, j, q, k, a in that order, then exactly 2 jokers when enabled.    *)
(* The deck is a function of the two inputs alone.                         *)
(***************************************************************************)
C10_Suits == << <<"h">>, <<"d">>, <<"c">>, <<"s">> >>

C10_Ranks == << <<"2">>, <<"3">>, <<"4">>, <<"5">>, <<"6">>, <<"7">>, <<"8">>,
                <<"9">>, <<"1", "0">>, <<"j">>, <<"q">>, <<"k">>, <<"a">> >>

\* the code, rank and suit expected at position i of a deck whose packs
\* hold perPack cards
C10_Expected(i, perPack) ==
    LET pos == (i - 1) % perPack
    IN  IF pos >= 52
        THEN [Code |-> <<"j", "o", "k", "e", "r">>,
              Rank |-> <<"j", "o", "k", "e", "r">>, Suit |-> <<>>]
        ELSE [Code |-> C10_Ranks[(pos % 13) + 1] \o C10_Suits[(pos \div 13) + 1],
              Rank |-> C10_Ranks[(pos % 13) + 1],
              Suit |-> C10_Suits[(pos \div 13) + 1]]

C10_Generate ==
    \A n \in 1..10, j \in {<<>>, sTrue, sFalse} :
        (out.req.Entry = "new" /\ out.req.Path = GenPath(n, j)) =>
            LET perPack == IF j = sTrue THEN 54 ELSE 52
                cards == out.resp.Cards
            IN  /\ out.resp.status = 200
                /\ Len(cards) = 52 * n + (IF j = sTrue THEN 2 * n ELSE 0)
                /\ \A i \in 1..Len(cards) :
                      [Code |-> cards[i].Code, Rank |-> cards[i].Rank,
                       Suit |-> cards[i].Suit] = C10_Expected(i, perPack)

\* a deck of 10 packs with jokers was generated
C10_Witness ==
    /\ out.req.Entry = "new"
    /\ out.req.Path = GenPath(10, sTrue)
    /\ out.resp.status = 200
    /\ Len(out.resp.Cards) = 540

(***************************************************************************)
(* C11.  A successful create stores one new record under an identifier not *)
(* in use, with full the cards generated for the pack count and the joker  *)
(* setting of the request, upcoming the same cards in the same order and   *)
(* drawn empty; it reports remaining = len(full) and returns those cards;  *)
(* the decks already stored are left as they were.                         *)
(***************************************************************************)
CreateStep(p) == pc[p] = "cExec" /\ pc'[p] = "idle"

C11_Create ==
    [][\A p \in Handlers :
         (CreateStep(p) /\ out'.resp.status = 200) =>
            LET cards == generateCards(nbrPaquetOf(req[p].Path), jokersOf(req[p].Path))
                id == out'.resp.ID
            IN  /\ id \notin DOMAIN db
                /\ DOMAIN db' = DOMAIN db \cup {id}
                /\ db'[id].cards.arr = Encode(cards)
                /\ db'[id].upcoming.arr = db'[id].cards.arr
                /\ db'[id].piged.arr = <<>>
                /\ out'.resp.Remaining = Len(db'[id].cards.arr)
                /\ out'.resp.Cards = db'[id].cards.arr
                /\ \A d \in DOMAIN db : db'[d] = db[d]]_vars

\* a deck of 2 packs with jokers was just created next to a deck of 1 pack
C11_Witness ==
    /\ out.req.Entry = "new"
    /\ out.resp.status = 200
    /\ Len(out.resp.Cards) = 108
    /\ out.resp.ID \in DOMAIN db
    /\ Upcoming(out.resp.ID) = out.resp.Cards
    /\ \E d \in DOMAIN db : d # out.resp.ID /\ Len(Full(d)) = 52

(***************************************************************************)
(* C12.  AddCards on an existing deck stores an upcoming pile that is the  *)
(* prior one, in its order, followed by the cards of the cards parameter   *)
(* in list order (their codes, joined by commas, spell the parameter as    *)
(* JSON writes it); it leaves drawn and full as they were and returns      *)
(* cards = full followed by the new upcoming, remaining = its length.      *)
(***************************************************************************)
RECURSIVE JoinCodes(_)
JoinCodes(codes) ==
    IF Len(codes) = 0 THEN <<>>
    ELSE IF Len(codes) = 1 THEN codes[1]
    ELSE codes[1] \o <<",">> \o JoinCodes(Tail(codes))

AddUpdateStep(p) == pc[p] = "aUpdate" /\ pc'[p] = "idle"

C12_AddAppends ==
    [][\A p \in Handlers :
         AddUpdateStep(p) =>
            LET d == deckIDOf(req[p])
                old == Upcoming(d)
                new == db'[d].upcoming.arr
                added == SubSeq(new, Len(old) + 1, Len(new))
            IN  /\ Len(new) > Len(old)
                /\ SubSeq(new, 1, Len(old)) = old
                /\ JoinCodes(Codes(added)) = jsonString(req[p].Query)
                /\ \A i \in 1..Len(added) : ~(\E j \in 1..Len(added[i].Code) :
                                                    added[i].Code[j] = ",")
                /\ db'[d].piged = db[d].piged
                /\ db'[d].cards = db[d].cards
                /\ out'.resp.status = 200
                /\ out'.resp.Cards = Full(d) \o new
                /\ out'.resp.Remaining = Len(new)]_vars

\* two codes were added behind the cards a deck of 1 pack still held
C12_Witness ==
    /\ out.req.Method = "POST"
    /\ out.resp.status = 200
    /\ deckIDOf(out.req) \in DOMAIN db
    /\ LET up == Upcoming(deckIDOf(out.req))
       IN  /\ Len(up) > 2
           /\ up[1].Rank # <<>>
           /\ up[Len(up) - 1].Code = <<"k">>
           /\ out.resp.Remaining = Len(up)
           /\ Len(out.resp.Cards) = 52 + Len(up)

(***************************************************************************)
(* C13.  The remaining count of every successful create, draw, shuffle and *)
(* add-cards response is the length of the upcoming pile stored for that   *)
(* deck when the response is written.                                      *)
(***************************************************************************)
OutIsDeckResp ==
    /\ out.resp.status = 200
    /\ ~OutIsShow(<<"0">>)
    /\ ~OutIsShow(<<"1">>)

OutDeck == IF out.req.Entry = "new" THEN out.resp.ID ELSE deckIDOf(out.req)

C13_Remaining ==
    OutIsDeckResp =>
        /\ OutDeck \in DOMAIN db
        /\ out.resp.ID = OutDeck
        /\ out.resp.Remaining = Len(Upcoming(OutDeck))

\* a draw of 5 from a deck of 1 pack reported the 47 cards left in the store
C13_Witness ==
    /\ OutIsDraw
    /\ out.resp.status = 200
    /\ Len(out.resp.Cards) = 5
    /\ out.resp.Remaining = 47
    /\ Len(Upcoming(OutDeck)) = 47

(***************************************************************************)
(* C14.  Every stored deck was generated with a pack count from 1 to 10:   *)
(* its full pile has 52 or 54 cards per pack for some such count, so never *)
(* fewer than 52, and a create request with a pack count above 10 fails    *)
(* and stores nothing.                                                     *)
(* The code tests nbrPaquet > 10 alone: a count of 0 or below passes and   *)
(* stores a deck without cards.                                            *)
(***************************************************************************)
C14_PackCount ==
    /\ \A d \in DOMAIN db :
          \E n \in 1..10 : Len(Full(d)) \in {52 * n, 54 * n}
    /\ (out.req.Entry = "new" /\ nbrPaquetOf(out.req.Path) > 10) =>
          (out.resp.status # 200 /\ out.resp.ID \notin DOMAIN db)

(***************************************************************************)
(* C15.  Every draw or shuffle request handed to the request channel gets  *)
(* its response, and exactly one: a handler that sends or waits is         *)
(* eventually answered, it leaves its wait only by the one reply the       *)
(* worker sends for its request, and mu, once taken, is eventually         *)
(* released, on success and on every error path.                           *)
(***************************************************************************)
Pending(p) == pc[p] \in {"send", "wait"}

OneReply(p) ==
    (pc[p] = "wait" /\ pc'[p] # "wait") =>
        /\ pc'[p] = "idle"
        /\ pc[Worker] = "wReply" /\ pc'[Worker] = "wUnlock"
        /\ wreq.ReplyCh = p
        /\ out'.req = req[p]
        /\ out'.resp = handleResponse(loc[Worker].out)

C15_Liveness ==
    /\ \A p \in Handlers : Pending(p) ~> (pc[p] = "idle")
    /\ (mu # 0) ~> (mu = 0)
    /\ [][\A p \in Handlers : OneReply(p)]_vars

\* the worker, holding mu, is about to reply an error to a waiting handler
\* while another handler is blocked in its send on requestChannel
C15_Witness ==
    /\ pc[Worker] = "wReply"
    /\ mu = Worker
    /\ loc[Worker].out.Error # ""
    /\ \E p, q \in Handlers : pc[p] = "wait" /\ pc[q] = "send"

(***************************************************************************)
(* C16.  Pile monotonicity per step: in every step every stored deck stays *)
(* stored, its previous drawn pile is a prefix of its new drawn pile, its  *)
(* full pile is unchanged; its upcoming pile gets shorter only in the      *)
(* UPDATE of a draw on it (which does shorten it), longer only in the      *)
(* UPDATE of an add-cards on it, keeps its length in a shuffle, and the    *)
(* show operations change no pile.                                         *)
(***************************************************************************)
IsPrefix(a, b) == Len(a) <= Len(b) /\ SubSeq(b, 1, Len(a)) = a

ShowStep(p) == pc[p] \in {"sdExec", "suExec"} /\ pc'[p] = "idle"

C16_Monotone ==
    [][/\ \A d \in DOMAIN db :
            /\ d \in DOMAIN db'
            /\ IsPrefix(Drawn(d), db'[d].piged.arr)
            /\ db'[d].cards = db[d].cards
            /\ Len(db'[d].upcoming.arr) < Len(Upcoming(d)) =>
                  (DrawUpdateStep /\ wreq.DeckID = d)
            /\ Len(db'[d].upcoming.arr) > Len(Upcoming(d)) =>
                  \E p \in Handlers : AddUpdateStep(p) /\ deckIDOf(req[p]) = d
       /\ DrawUpdateStep =>
            Len(db'[wreq.DeckID].upcoming.arr) < Len(Upcoming(wreq.DeckID))
       /\ ShuffleUpdateStep =>
            Len(db'[wreq.DeckID].upcoming.arr) = Len(Upcoming(wreq.DeckID))
       /\ (\E p \in Handlers : ShowStep(p)) => db' = db]_vars

\* a deck of 1 pack after a draw of 5 and an add of 2 codes
C16_Witness ==
    \E d \in DOMAIN db :
        /\ Len(Full(d)) = 52
        /\ Len(hist[d].drawn) = 5
        /\ Len(hist[d].added) = 2
        /\ Len(Upcoming(d)) = 49

(***************************************************************************)
(* C17.  A draw with a valid count, a shuffle, an add-cards, a show-drawn  *)
(* or a show-upcoming on an identifier without a record is answered with   *)
(* the error "Deck not found" and no cards; the worker finds the deck      *)
(* missing without writing, and the step that answers creates no record    *)
(* and leaves the store as it was.                                         *)
(***************************************************************************)
\* r is one of the five operations (a draw with a valid count)
IsDeckOp(r) ==
    LET parts == Split(r.Path, "/")
    IN  /\ r.Entry = "deck"
        /\ \/ r.Method = "POST" /\ Len(parts) = 2 /\ parts[2] = sAdd
           \/ r.Method = "GET" /\ Len(parts) = 2 /\ parts[2] = sShuffle
           \/ r.Method = "GET" /\ Len(parts) = 3 /\ parts[2] = sDraw
                  /\ ValidCount(parts[3])
           \/ r.Method = "GET" /\ Len(parts) = 4 /\ parts[2] = sShow
                  /\ parts[3] \in {<<"0">>, <<"1">>}

WorkerQueryStep == pc[Worker] = "wQuery" /\ pc'[Worker] # "wQuery"

C17_NotFound ==
    [][/\ (/\ WorkerQueryStep
           /\ wreq.DeckID \notin DOMAIN db
           /\ wreq.Type = "draw" => ValidCount(wreq.Params[1])) =>
            /\ loc'[Worker].out = ErrResponse("Deck not found")
            /\ pc'[Worker] = "wReply"
            /\ db' = db
       /\ (/\ out'.req # NoReq
           /\ IsDeckOp(out'.req)
           /\ deckIDOf(out'.req) \notin DOMAIN db) =>
            /\ out'.resp.msg = "Deck not found"
            /\ out'.resp.status \in {404, 500}
            /\ out'.resp.Cards = <<>>
            /\ db' = db]_vars

\* a shuffle of an unknown deck was refused while the store held a deck
C17_Witness ==
    /\ out.req.Entry = "deck"
    /\ Len(OutParts) = 2
    /\ OutParts[2] = sShuffle
    /\ OutParts[1] \notin DOMAIN db
    /\ out.resp.msg = "Deck not found"
    /\ \E d \in DOMAIN db : Len(Upcoming(d)) = 52

(***************************************************************************)
(* C18.  A draw whose count is zero, negative, not a number or empty is    *)
(* refused with "Invalid number of cards" by the step that would look the  *)
(* deck up, whether the deck exists or not; the client gets that error     *)
(* and no cards, and the store is left as it was.                          *)
(***************************************************************************)
BadCounts == { <<"0">>, <<"-", "1">>, <<"x">>, <<>> }

C18_InvalidCount ==
    [][/\ (/\ WorkerQueryStep
           /\ wreq.Type = "draw"
           /\ wreq.Params[1] \in BadCounts) =>
            /\ loc'[Worker].out = ErrResponse("Invalid number of cards")
            /\ pc'[Worker] = "wReply"
            /\ db' = db
       /\ (DrawReplyStep /\ wreq.Params[1] \in BadCounts) =>
            /\ out'.resp = HttpError("Invalid number of cards", 500)
            /\ out'.resp.Cards = <<>>
            /\ db' = db]_vars

\* a draw of -1 cards from an unknown deck was refused for its count, not for
\* the deck, while the store held a deck
C18_Witness ==
    /\ OutIsDraw
    /\ OutParts[3] = <<"-", "1">>
    /\ OutParts[1] \notin DOMAIN db
    /\ out.resp.msg = "Invalid number of cards"
    /\ \E d \in DOMAIN db : Len(Upcoming(d)) = 52

(***************************************************************************)
(* C19.  A show-drawn or show-upcoming of an existing deck with a count    *)
(* that is negative, not a number, or above the length of the stored pile  *)
(* it shows is refused with "Invalid count" and returns no cards; with a   *)
(* count from 0 to that length it succeeds.  (The stored drawn pile is     *)
(* always empty, see C2: show-drawn succeeds with count 0 alone.)          *)
(***************************************************************************)
NumericShowParams == { <<"0">>, <<"2">>, <<"5", "2">>, <<"5", "3">> }

ShowValue(c) ==
    CASE c = <<"0">> -> 0
      [] c = <<"2">> -> 2
      [] c = <<"5", "2">> -> 52
      [] c = <<"5", "3">> -> 53

C19_ShowCount ==
    \A t \in {<<"0">>, <<"1">>} :
        (OutIsShow(t) /\ OutParts[1] \in DOMAIN db) =>
            LET pile == IF t = <<"0">> THEN Drawn(OutParts[1])
                        ELSE Upcoming(OutParts[1])
                c == OutParts[4]
                inRange == c \in NumericShowParams /\ ShowValue(c) <= Len(pile)
            IN  /\ inRange => out.resp.status = 200
                /\ ~inRange =>
                      /\ out.resp = HttpError("Invalid count", 400)
                      /\ out.resp.Cards = <<>>

\* a show of 53 upcoming cards of a deck of 52 was refused
C19_Witness ==
    /\ OutIsShow(<<"1">>)
    /\ OutParts[4] = <<"5", "3">>
    /\ OutParts[1] \in DOMAIN db
    /\ Len(Upcoming(OutParts[1])) = 52
    /\ out.resp = HttpError("Invalid count", 400)

(***************************************************************************)
(* C20.  AddCards on an existing deck grows the stored upcoming pile by    *)
(* exactly (commas in the cards parameter + 1) cards behind the prior      *)
(* ones, each with a code and no rank, suit or image, the codes being the  *)
(* parts of the parameter between its commas; an empty or missing          *)
(* parameter appends one card with the empty code, so the pile never       *)
(* stays as it was.                                                        *)
(*   As stated, the stored codes are the raw parts: C20_AddRaw.  That      *)
(* fails for a byte that is no valid UTF-8, which json.Marshal stores as   *)
(* U+FFFD.  As amended, the stored codes are the parts as JSON writes      *)
(* them: C20_AddCoerced.                                                   *)
(***************************************************************************)
Commas(s) == Cardinality({i \in 1..Len(s) : s[i] = ","})

\* the step of add-cards stored, behind the prior pile, Commas + 1 cards of
\* a code alone, whose codes joined by commas spell `text`
AddedSpell(p, text) ==
    LET d == deckIDOf(req[p])
        old == Upcoming(d)
        new == db'[d].upcoming.arr
        added == SubSeq(new, Len(old) + 1, Len(new))
    IN  /\ Len(new) = Len(old) + Commas(req[p].Query) + 1
        /\ new # old
        /\ SubSeq(new, 1, Len(old)) = old
        /\ \A i \in 1..Len(added) :
              added[i].Rank = <<>> /\ added[i].Suit = <<>> /\ added[i].Image = <<>>
        /\ JoinCodes(Codes(added)) = text

C20_AddRaw ==
    [][\A p \in Handlers : AddUpdateStep(p) => AddedSpell(p, req[p].Query)]_vars

C20_AddCoerced ==
    [][\A p \in Handlers :
         AddUpdateStep(p) => AddedSpell(p, jsonString(req[p].Query))]_vars

\* an add of "k" and a byte that is no UTF-8 stored the codes k and U+FFFD
\* behind the 52 cards of the deck
C20_Witness ==
    /\ out.req.Method = "POST"
    /\ out.req.Query = <<"k", ",", BadByte>>
    /\ out.resp.status = 200
    /\ deckIDOf(out.req) \in DOMAIN db
    /\ LET up == Upcoming(deckIDOf(out.req))
       IN  /\ Len(up) = 54
           /\ up[53].Code = <<"k">>
           /\ up[54].Code = <<ReplacementRune>>

====
